---- MODULE Spec2Model ----
(***************************************************************************)
(* Model of soc-credit-bot-rs (src/src/main.rs): the two numeral           *)
(* formatters, the layout code of render, and the update loop.             *)
(*                                                                         *)
(* A Rust String is a sequence of characters; each character is a TLA+     *)
(* string naming one code point.  The CJK glyphs are named by their        *)
(* reading ("yi" is U+4E00, "wan" is U+4E07, ...); every one of them takes *)
(* three bytes in UTF-8, every ASCII character one.                        *)
(***************************************************************************)
EXTENDS Integers, Sequences, FiniteSets, TLC

VARIABLES
    overflow_checks,  \* build profile: TRUE = debug (i32 overflow panics)
    pc,               \* position of the single-call harness
    number,           \* the i32 amount handed to the call
    chinese,          \* result of format_chinese_number(number)
    latin,            \* result of format_latin_number(number)
    env,              \* what the assets, rasterizer and codec do in the call
    out,              \* result of render_raw_number(number)
    loop,             \* async_main's receive loop
    received,         \* the updates next_update has returned, in order
    tasks,            \* the spawned handle_update tasks, in spawn order
    log               \* tasks whose error the spawned block printed, in order

callVars == <<pc, number, chinese, latin, env, out>>
botVars == <<loop, received, tasks, log>>
vars == <<overflow_checks, pc, number, chinese, latin, env, out,
          loop, received, tasks, log>>

\* ---------------------------------------------------------------- bounds

\* Largest decimal digit used in the magnitudes of the formatter inputs.
MaxDigit == 2
\* Largest decimal digit used in the magnitudes of the render inputs.
MaxRenderDigit == 1
\* Updates the network delivers in one run of the bot.
MaxUpdates == 2

\* ------------------------------------------------------------- constants

DIGITS == <<"yi", "er", "san", "si", "wu", "liu", "qi", "ba", "jiu">>
EXPONENTS == <<"shi", "bai", "qian">>
ZERO_MARK == "ling"
MYRIAD_MARK == <<"wan">>
TWO_MARK_FOR_THOUSANDS == "liang"
CHINESE_SUFFIX == <<"she", "hui", "xin", "yong">>
LATIN_SUFFIX_SHORT == <<"S", "o", "c", ".", " ", "C", "r", "e", "d", "i", "t">>
LATIN_SUFFIX_FULL == <<"S", "o", "c", "i", "a", "l", " ", "C", "r", "e", "d", "i", "t">>

\* i32::MIN and i32::MAX.
I32_MAX == 2147483647
I32_MIN == (-2147483647) - 1

\* 一亿, the first unsupported magnitude.
HUNDRED_MILLION == 100000000
\* 一万, the myriad.
MYRIAD == 10000

\* ------------------------------------------------------- Option / panic

None == [tag |-> "None", val |-> <<>>]
Panic == [tag |-> "Panic", val |-> <<>>]
Some(v) == [tag |-> "Some", val |-> v]
NotRun == [tag |-> "NotRun", val |-> <<>>]

\* ---------------------------------------------------------------- strings

SeqRange(s) == {s[i] : i \in 1..Len(s)}

CJK == SeqRange(DIGITS) \cup SeqRange(EXPONENTS) \cup SeqRange(MYRIAD_MARK)
         \cup SeqRange(CHINESE_SUFFIX) \cup {ZERO_MARK, TWO_MARK_FOR_THOUSANDS}

\* Bytes one char takes in UTF-8.
len_utf8(c) == IF c \in CJK THEN 3 ELSE 1

\* str::len: the length in bytes.
RECURSIVE byte_len(_)
byte_len(s) == IF s = <<>> THEN 0 ELSE len_utf8(Head(s)) + byte_len(Tail(s))

\* s.chars().nth(k): the k-th character counting from 0, or None.
chars_nth(s, k) == IF k < Len(s) THEN Some(s[k + 1]) ELSE None

\* i32::to_string on a positive value: the decimal digits, most significant
\* first.
DecDigit == <<"0", "1", "2", "3", "4", "5", "6", "7", "8", "9">>

RECURSIVE pos_to_string(_)
pos_to_string(n) ==
    IF n < 10 THEN <<DecDigit[n + 1]>>
    ELSE pos_to_string(n \div 10) \o <<DecDigit[(n % 10) + 1]>>

\* i32::to_string: a minus sign and the magnitude's digits for a negative
\* value (the magnitude of i32::MIN is no i32, so its last digit is split off
\* before negating).
to_string(n) ==
    IF n >= 0 THEN pos_to_string(n)
    ELSE LET last == (10 - (n % 10)) % 10
             rest == -((n + last) \div 10)
         IN <<"-">> \o (IF rest = 0 THEN <<>> ELSE pos_to_string(rest))
                    \o <<DecDigit[last + 1]>>

\* i32::abs: overflows on i32::MIN; the debug profile panics, the release
\* profile wraps to i32::MIN.
abs(n) ==
    IF n = I32_MIN THEN (IF overflow_checks THEN Panic ELSE Some(I32_MIN))
    ELSE IF n < 0 THEN Some(-n) ELSE Some(n)

\* ---------------------------------------------------- format_latin_number

\* The block computing max_exp: the number of trailing zero digits.
RECURSIVE max_exp_loop(_, _)
max_exp_loop(cur, max_exp) ==
    IF cur > 0 /\ cur % 10 = 0 THEN max_exp_loop(cur \div 10, max_exp + 1)
    ELSE max_exp

\* A faulty variant: the tier follows the size of the magnitude, not its trailing zeros.
max_exp_by_size(a) == IF a >= 1000000 THEN 6 ELSE IF a >= 1000 THEN 3 ELSE 0

max_exp_of(a) == max_exp_loop(a, 0)

\* The match on max_exp / 3.
latin_tier(a, tier) ==
    CASE tier = 0 -> Some(to_string(a))
      [] tier = 1 -> Some(to_string(a \div 1000) \o <<"k">>)
      [] tier = 2 -> Some(to_string(a \div 1000000) \o <<"m">>)
      [] OTHER -> None

format_latin_number(n) ==
    LET a == abs(n) IN
    IF a.tag = "Panic" THEN Panic
    ELSE IF a.val = 0 \/ a.val >= HUNDRED_MILLION THEN None
    ELSE latin_tier(a.val, max_exp_of(a.val) \div 3)

\* -------------------------------------------------- format_chinese_number

\* A faulty variant: the zero branch without the test for a zero-glyph already in front.
zero_digit_step_unguarded(result) ==
    IF result # <<>> THEN <<ZERO_MARK>> \o result ELSE result

\* The zero branch of the digit loop.
zero_digit_step(result) ==
    IF result # <<>> /\ result[1] # ZERO_MARK THEN <<ZERO_MARK>> \o result
    ELSE result

\* A faulty variant: the match without the arm for 2 in the thousands position.
digit_char_plain(exp, digit) == chars_nth(DIGITS, digit - 1)

\* The match choosing digit_char.
digit_char(exp, digit) ==
    IF exp = 3 /\ digit = 2 THEN Some(TWO_MARK_FOR_THOUSANDS)
    ELSE chars_nth(DIGITS, digit - 1)

\* The exponent string of a position.
exponent_of(exp) ==
    IF exp = 0 THEN Some(<<>>)
    ELSE LET e == chars_nth(EXPONENTS, exp - 1)
         IN IF e.tag = "None" THEN None ELSE Some(<<e.val>>)

\* The while loop over the decimal digits, least significant first.
RECURSIVE digit_loop(_, _, _)
digit_loop(a, exp, result) ==
    IF ~(a > 0) THEN Some(result)
    ELSE LET digit == a % 10 IN
         IF digit = 0
         THEN digit_loop(a \div 10, exp + 1, zero_digit_step(result))
         ELSE LET dc == digit_char(exp, digit)
                  ex == exponent_of(exp)
              IN IF dc.tag = "None" \/ ex.tag = "None" THEN None
                 ELSE digit_loop(a \div 10, exp + 1, <<dc.val>> \o ex.val \o result)

\* Whether the myriad branch is taken.
above_myriad(a) == a > MYRIAD

RECURSIVE format_chinese_number(_)
format_chinese_number(n) ==
    LET a == abs(n) IN
    IF a.tag = "Panic" THEN Panic
    ELSE IF a.val = 0 \/ a.val >= HUNDRED_MILLION THEN None
    ELSE IF above_myriad(a.val)
    THEN LET lower_part_int == a.val % MYRIAD
             lower_part == IF lower_part_int = 0 THEN Some(<<>>)
                           ELSE format_chinese_number(lower_part_int)
             upper_part == format_chinese_number(a.val \div MYRIAD)
         IN IF lower_part.tag # "Some" THEN lower_part
            ELSE IF upper_part.tag # "Some" THEN upper_part
            ELSE Some(upper_part.val \o MYRIAD_MARK \o lower_part.val)
    ELSE digit_loop(a.val, 0, <<>>)


\* ------------------------------------------------------------------ render

\* The external collaborators of one call: the first fallible step that
\* fails ("none" when all succeed), and the render_shadowed calls (counted
\* from 1) whose text TextBlob::from_text turns down.
FailPoints == {"none", "icon", "surface", "cjk_font", "latin_font", "encode"}
\* (No render_shadowed call is made after a failure of the icon, the surface
\* or the CJK font.)
Envs ==
    {e \in [fail : FailPoints, reject : SUBSET (1..3)] :
        e.fail \in {"icon", "surface", "cjk_font"} => e.reject = {}}
NoFailure == [fail |-> "none", reject |-> {}]

\* What a call leaves behind: how it returned, the render_shadowed calls it
\* made, and the draws that reached the canvas.
Rendered(tag, plan, canvas) == [tag |-> tag, plan |-> plan, canvas |-> canvas]
NotRendered == Rendered("NotRun", <<>>, <<>>)

\* One render_shadowed call: its arguments.
Shadowed(text, font, x, y) == [text |-> text, font |-> font, x |-> x, y |-> y]

\* What the closure render_shadowed draws for its k-th call: nothing when
\* the blob cannot be made, else the shadow at (x+4, y+4) and the text.
render_shadowed(e, k, c) ==
    IF k \in e.reject THEN <<>>
    ELSE << [text |-> c.text, font |-> c.font, x |-> c.x + 4, y |-> c.y + 4,
             paint |-> "black"],
            [text |-> c.text, font |-> c.font, x |-> c.x, y |-> c.y,
             paint |-> "white"] >>

\* canvas.draw_image(base, (0, 0), None).
draw_image(base) ==
    <<[text |-> <<>>, font |-> "", x |-> 0, y |-> 0, paint |-> base]>>

RECURSIVE draw_all(_, _, _)
draw_all(e, plan, k) ==
    IF k > Len(plan) THEN <<>>
    ELSE render_shadowed(e, k, plan[k]) \o draw_all(e, plan, k + 1)

\* str::split_at: mid is a byte offset; panics unless it is on a character
\* boundary of s.
split_at(s, mid) ==
    IF \E k \in 0..Len(s) : byte_len(SubSeq(s, 1, k)) = mid
    THEN LET k == CHOOSE k \in 0..Len(s) : byte_len(SubSeq(s, 1, k)) = mid
         IN Some(<<SubSeq(s, 1, k), SubSeq(s, k + 1, Len(s))>>)
    ELSE Panic

\* Whether the split position is moved on by one.
breaks_period(firstWrappedChar) ==
    /\ firstWrappedChar \notin SeqRange(DIGITS)
    /\ firstWrappedChar # ZERO_MARK
    /\ firstWrappedChar # TWO_MARK_FOR_THOUSANDS

\* The splitPosition of the last match arm, or None.
split_position(chinese_number) ==
    LET splitPosition == (Len(chinese_number) + Len(CHINESE_SUFFIX)) \div 2
        firstWrappedChar == chars_nth(chinese_number, splitPosition)
    IN IF firstWrappedChar.tag = "None" THEN None
       ELSE IF breaks_period(firstWrappedChar.val) THEN Some(splitPosition + 1)
       ELSE Some(splitPosition)

\* The match on chinese_number.chars().count(): the render_shadowed calls
\* of the arm and latinYComp.
Layout(tag, calls, comp) == [tag |-> tag, calls |-> calls, comp |-> comp]

chinese_layout(chinese_number) ==
    LET L == Len(chinese_number)
        whole == chinese_number \o CHINESE_SUFFIX
    IN CASE L <= 4 -> Layout("Ok", <<Shadowed(whole, "cjkFontLarge", 160, 140)>>, 0)
         [] L = 5 -> Layout("Ok", <<Shadowed(whole, "cjkFontMedium", 160, 140)>>, 0)
         [] L = 6 -> Layout("Ok", <<Shadowed(whole, "cjkFontSmall", 160, 140)>>, 0)
         [] L = 7 -> Layout("Ok", <<Shadowed(whole, "cjkFontPico", 160, 135)>>, 10)
         [] L \in 8..11 ->
                Layout("Ok", <<Shadowed(chinese_number, "cjkFontPico", 160, 110),
                               Shadowed(CHINESE_SUFFIX, "cjkFontPico", 160, 145)>>, 0)
         [] OTHER ->
                LET sp == split_position(chinese_number)
                    parts == split_at(chinese_number, sp.val)
                IN IF sp.tag = "None" THEN Layout("None", <<>>, 0)
                   ELSE IF parts.tag = "Panic" THEN Layout("Panic", <<>>, 0)
                   ELSE Layout("Ok",
                          <<Shadowed(parts.val[1], "cjkFontPico", 160, 110),
                            Shadowed(parts.val[2] \o CHINESE_SUFFIX, "cjkFontPico",
                                     160, 145)>>, 0)

\* The Latin line: suffix, font and base y.
latin_suffix(latin_number) ==
    IF Len(latin_number) > 7 THEN LATIN_SUFFIX_SHORT ELSE LATIN_SUFFIX_FULL

latin_font(latin_number) ==
    IF Len(latin_number) > 4 THEN "latinFontSmall" ELSE "latinFontLarge"

\* A faulty variant: the y threshold off by one.
latin_y_from_four(latin_number) == IF Len(latin_number) >= 4 THEN 75 ELSE 80

latin_y(latin_number) == IF Len(latin_number) > 4 THEN 75 ELSE 80

latin_line(latin_number, comp) ==
    Shadowed(latin_number \o <<" ">> \o latin_suffix(latin_number),
             latin_font(latin_number), 160, latin_y(latin_number) + comp)

\* The surface after the base image and the render_shadowed calls of plan.
surface(e, base, plan) == draw_image(base) \o draw_all(e, plan, 1)

render(e, base, latin_number, chinese_number) ==
    IF e.fail = "surface" THEN Rendered("None", <<>>, <<>>)
    ELSE IF e.fail = "cjk_font" THEN Rendered("None", <<>>, draw_image(base))
    ELSE LET lay == chinese_layout(chinese_number) IN
         IF lay.tag # "Ok" THEN Rendered(lay.tag, <<>>, draw_image(base))
         ELSE IF e.fail = "latin_font"
         THEN Rendered("None", lay.calls, surface(e, base, lay.calls))
         ELSE LET plan == lay.calls \o <<latin_line(latin_number, lay.comp)>>
              IN Rendered(IF e.fail = "encode" THEN "None" ELSE "Some",
                          plan, surface(e, base, plan))

render_number(e, orig_number, sig, base) ==
    LET chinese_number == format_chinese_number(orig_number)
        latin_number == format_latin_number(orig_number)
    IN IF chinese_number.tag # "Some" THEN Rendered(chinese_number.tag, <<>>, <<>>)
       ELSE IF latin_number.tag # "Some" THEN Rendered(latin_number.tag, <<>>, <<>>)
       ELSE render(e, base, <<sig>> \o latin_number.val,
                   <<sig>> \o chinese_number.val)

render_raw_number(e, amount) ==
    IF amount = 0 THEN Rendered("None", <<>>, <<>>)
    ELSE IF e.fail = "icon" THEN Rendered("None", <<>>, <<>>)
    ELSE IF amount < 0 THEN render_number(e, amount, "-", "minus.png")
    ELSE render_number(e, amount, "+", "plus.png")

\* The bot before its first update.
BotIdle ==
    /\ loop = "receiving"
    /\ received = <<>>
    /\ tasks = <<>>
    /\ log = <<>>

\* ------------------------------------------------------ formatter harness

\* Magnitudes of at most eight digits, each digit in 0..MaxDigit.
RECURSIVE DigitNumbers(_)
DigitNumbers(k) ==
    IF k = 0 THEN {0}
    ELSE {10 * p + d : p \in DigitNumbers(k - 1), d \in 0..MaxDigit}

\* Values at the edges of the domain and of i32.
EdgeAmounts ==
    {0, 9, 99, 999, 9999, 99999999, 90000000, 12300, 1234, 12345600,
     HUNDRED_MILLION, HUNDRED_MILLION + 1, 1000000000, I32_MAX}

FormatInputs ==
    LET mags == DigitNumbers(8) \cup EdgeAmounts
    IN mags \cup {-m : m \in mags} \cup {I32_MIN}

FormatInit ==
    /\ number \in FormatInputs
    /\ overflow_checks \in BOOLEAN
    /\ pc = "start"
    /\ chinese = NotRun
    /\ latin = NotRun
    /\ env = NoFailure
    /\ out = NotRendered
    /\ BotIdle

CallFormatChinese ==
    /\ pc = "start"
    /\ chinese' = format_chinese_number(number)
    /\ pc' = "chinese"
    /\ UNCHANGED <<overflow_checks, number, latin, env, out, botVars>>

CallFormatLatin ==
    /\ pc = "chinese"
    /\ latin' = format_latin_number(number)
    /\ pc' = "formatted"
    /\ UNCHANGED <<overflow_checks, number, chinese, env, out, botVars>>

FormatNext == CallFormatChinese \/ CallFormatLatin

SpecFormat == FormatInit /\ [][FormatNext]_vars

\* --------------------------------------------------------- render harness

RECURSIVE RenderNumbers(_)
RenderNumbers(k) ==
    IF k = 0 THEN {0}
    ELSE {10 * p + d : p \in RenderNumbers(k - 1), d \in 0..MaxRenderDigit}

RenderInputs ==
    LET mags == RenderNumbers(8) \cup EdgeAmounts
    IN mags \cup {-m : m \in mags} \cup {I32_MIN}

RenderInit ==
    /\ number \in RenderInputs
    /\ overflow_checks \in BOOLEAN
    /\ pc = "start"
    /\ chinese = NotRun
    /\ latin = NotRun
    /\ env = NoFailure
    /\ out = NotRendered
    /\ BotIdle

CallRenderRawNumber ==
    /\ pc = "formatted"
    /\ \E e \in Envs :
          /\ env' = e
          /\ out' = render_raw_number(e, number)
    /\ pc' = "rendered"
    /\ UNCHANGED <<overflow_checks, number, chinese, latin, botVars>>

RenderNext == CallFormatChinese \/ CallFormatLatin \/ CallRenderRawNumber

SpecRender == RenderInit /\ [][RenderNext]_vars

\* --------------------------------------------------------------- the bot

\* str::parse::<i32>: an optional sign, then one or more decimal digits,
\* accumulated with checked arithmetic (downwards for a negative number).
RECURSIVE parse_digits(_, _, _)
parse_digits(s, acc, negative) ==
    IF s = <<>> THEN Some(acc)
    ELSE IF Head(s) \notin SeqRange(DecDigit) THEN None
    ELSE LET d == (CHOOSE i \in 1..10 : DecDigit[i] = Head(s)) - 1 IN
         IF negative
         THEN IF acc < (I32_MIN + d + 9) \div 10 THEN None
              ELSE parse_digits(Tail(s), acc * 10 - d, negative)
         ELSE IF acc > (I32_MAX - d) \div 10 THEN None
              ELSE parse_digits(Tail(s), acc * 10 + d, negative)

parse_i32(text) ==
    IF text = <<>> THEN None
    ELSE IF text[1] \in {"+", "-"}
    THEN (IF Len(text) = 1 THEN None
          ELSE parse_digits(Tail(text), 0, text[1] = "-"))
    ELSE parse_digits(text, 0, FALSE)

\* The updates of the model.
NewMessage(outgoing) == [kind |-> "NewMessage", outgoing |-> outgoing, text |-> <<>>]
InlineQuery(text) == [kind |-> "InlineQuery", outgoing |-> FALSE, text |-> text]
OtherUpdate == [kind |-> "Other", outgoing |-> FALSE, text |-> <<>>]

QueryTexts ==
    { <<"x">>, <<"0">>, <<"-", "5">>, <<"1", "0", "0", "0", "0">>,
      <<"1", "1", "1", "1", "1", "1", "1", "1">>,
      <<"-", "2", "1", "4", "7", "4", "8", "3", "6", "4", "8">> }

Updates ==
    {NewMessage(TRUE), NewMessage(FALSE), OtherUpdate}
        \cup {InlineQuery(t) : t \in QueryTexts}

\* A spawned task: where its handle_update stands and how often it was
\* started.
Task(at, attempts) == [at |-> at, attempts |-> attempts]

Finished == {"done", "failed", "panicked", "cancelled"}

\* handle_update from its start to its first await (or its end): where the
\* task stands afterwards.
handle_first_poll(e, update) ==
    CASE update.kind = "NewMessage" /\ ~update.outgoing -> "send_message"
      [] update.kind = "InlineQuery" ->
            LET parsed == parse_i32(update.text)
                picture == render_raw_number(e, parsed.val)
            IN IF parsed.tag = "None" THEN "failed"
               ELSE IF picture.tag = "None" THEN "failed"
               ELSE IF picture.tag = "Panic" THEN "panicked"
               ELSE "upload_stream"
      [] OTHER -> "done"

\* handle_update resumed after an await: where the task stands afterwards.
\* reply is what the awaited call gave: "ok" or "err"; for UploadMedia a
\* document, a media that is no document, or "err".
handle_resume(at, reply) ==
    IF reply = "err" THEN "failed"
    ELSE CASE at = "send_message" -> "done"
           [] at = "upload_stream" -> "invoke"
           [] at = "invoke" -> IF reply = "document" THEN "answer" ELSE "done"
           [] at = "answer" -> "done"

Replies(at) ==
    IF at = "invoke" THEN {"document", "other_media", "err"} ELSE {"ok", "err"}

\* A faulty variant: the error of a handler ends the receive loop.
task_ended_propagating(i, at) ==
    /\ log' = IF at = "failed" THEN Append(log, i) ELSE log
    /\ loop' = IF at = "failed" THEN "error" ELSE loop
    /\ UNCHANGED received

\* The match in the spawned block: an Err is printed, nothing else happens.
task_ended(i, at) ==
    /\ log' = IF at = "failed" THEN Append(log, i) ELSE log
    /\ UNCHANGED <<loop, received>>

\* One pass of the loop in which next_update returns an update: the task is
\* spawned.
Receive ==
    /\ loop = "receiving"
    /\ Len(received) < MaxUpdates
    /\ \E u \in Updates :
          /\ received' = Append(received, u)
          /\ tasks' = Append(tasks, Task("spawned", 0))
    /\ UNCHANGED <<overflow_checks, callVars, loop, log>>

\* The first poll of task i.
TaskStart(i) ==
    /\ loop = "receiving"
    /\ tasks[i].at = "spawned"
    /\ \E at \in {handle_first_poll(e, received[i]) : e \in Envs} :
          /\ tasks' = [tasks EXCEPT ![i] = Task(at, @.attempts + 1)]
          /\ task_ended(i, at)
    /\ UNCHANGED <<overflow_checks, callVars>>

\* A later poll of task i: the call it awaits has completed.
TaskResume(i) ==
    /\ loop = "receiving"
    /\ tasks[i].at \in {"send_message", "upload_stream", "invoke", "answer"}
    /\ \E reply \in Replies(tasks[i].at) :
          LET at == handle_resume(tasks[i].at, reply) IN
          /\ tasks' = [tasks EXCEPT ![i] = Task(at, @.attempts)]
          /\ task_ended(i, at)
    /\ UNCHANGED <<overflow_checks, callVars>>

\* The loop ends: Ctrl+C or the end of the updates (break, the session is
\* saved), or an error of next_update (returned by `?`).  main returns and
\* the runtime is dropped with the tasks that have not finished.
LoopEnds ==
    /\ loop = "receiving"
    /\ \E how \in {"exited", "error"} : loop' = how
    /\ tasks' = [i \in 1..Len(tasks) |->
                    IF tasks[i].at \in Finished THEN tasks[i]
                    ELSE Task("cancelled", tasks[i].attempts)]
    /\ UNCHANGED <<overflow_checks, callVars, received, log>>

BotInit ==
    /\ overflow_checks \in BOOLEAN
    /\ pc = "bot"
    /\ number = 0
    /\ chinese = NotRun
    /\ latin = NotRun
    /\ env = NoFailure
    /\ out = NotRendered
    /\ BotIdle

BotNext ==
    \/ Receive
    \/ \E i \in 1..Len(tasks) : TaskStart(i)
    \/ \E i \in 1..Len(tasks) : TaskResume(i)
    \/ LoopEnds

SpecBot == BotInit /\ [][BotNext]_vars

\* ------------------------------------------------- reading a result back

\* The magnitude of an amount other than i32::MIN.
Magnitude(n) == IF n < 0 THEN -n ELSE n

InDomain(n) == n # I32_MIN /\ Magnitude(n) >= 1 /\ Magnitude(n) < HUNDRED_MILLION

IndexIn(s, c) == CHOOSE i \in 1..Len(s) : s[i] = c

Pow10(k) == CASE k = 0 -> 1 [] k = 1 -> 10 [] k = 2 -> 100 [] k = 3 -> 1000

\* Worth of one glyph read as a digit: 1..9, the two-glyph 2, anything else 0.
GlyphWorth(c) ==
    IF c \in SeqRange(DIGITS) THEN IndexIn(DIGITS, c)
    ELSE IF c = TWO_MARK_FOR_THOUSANDS THEN 2 ELSE 0

\* Positional value of one group: each digit glyph times the exponent glyph
\* that follows it, summed; the zero-glyph adds nothing.
RECURSIVE GroupValue(_)
GroupValue(s) ==
    IF s = <<>> THEN 0
    ELSE IF Len(s) >= 2 /\ s[2] \in SeqRange(EXPONENTS)
    THEN GlyphWorth(s[1]) * Pow10(IndexIn(EXPONENTS, s[2]))
           + GroupValue(SubSeq(s, 3, Len(s)))
    ELSE GlyphWorth(s[1]) + GroupValue(Tail(s))

\* Positional value of a whole numeral: the part before the myriad mark
\* times 10,000 plus the part after it.
HanValue(s) ==
    IF MYRIAD_MARK[1] \in SeqRange(s)
    THEN LET k == IndexIn(s, MYRIAD_MARK[1])
         IN GroupValue(SubSeq(s, 1, k - 1)) * MYRIAD
              + GroupValue(SubSeq(s, k + 1, Len(s)))
    ELSE GroupValue(s)

\* Value of a string of decimal digits (-1 for anything else).
RECURSIVE DecValue(_)
DecValue(s) ==
    IF s = <<>> THEN 0
    ELSE LET c == s[Len(s)]
             front == DecValue(SubSeq(s, 1, Len(s) - 1))
         IN IF c \notin SeqRange(DecDigit) \/ front < 0 THEN -1
            ELSE 10 * front + (IndexIn(DecDigit, c) - 1)

\* A canonical decimal numeral: digits only, no leading zero.
IsDecimal(s) == s # <<>> /\ s[1] # "0" /\ DecValue(s) >= 0

\* The decimal digits of m, most significant first, as integers.
RECURSIVE DigitsOf(_)
DigitsOf(m) == IF m < 10 THEN <<m>> ELSE DigitsOf(m \div 10) \o <<m % 10>>

\* T: the largest k such that 10^k divides m (m > 0).
TrailingZeros(m) ==
    LET d == DigitsOf(m)
    IN Len(d) - (CHOOSE i \in 1..Len(d) :
                   d[i] # 0 /\ \A j \in (i + 1)..Len(d) : d[j] = 0)

\* Maximal runs of zero digits of m standing between two non-zero digits.
InnerZeroRuns(m) ==
    LET d == DigitsOf(m)
    IN Cardinality({i \in 2..Len(d) :
           d[i] = 0 /\ d[i - 1] # 0 /\ \E j \in (i + 1)..Len(d) : d[j] # 0})

Count(s, c) == Cardinality({i \in 1..Len(s) : s[i] = c})

\* ------------------------------------------------------------------ C1
\* C1 (as claimed): for every magnitude m in 1..99,999,999 the formatter
\* returns Some(s), and s read back by the positional rules is m.
C1_RoundTrip ==
    (pc # "start" /\ InDomain(number)) =>
        /\ chinese.tag = "Some"
        /\ HanValue(chinese.val) = Magnitude(number)

\* What the code does: the same for every magnitude but 10,000, where the
\* digit loop finds no exponent glyph for position 4 and returns None.
RoundTripExceptMyriad ==
    (pc # "start" /\ InDomain(number)) =>
        IF Magnitude(number) = MYRIAD THEN chinese = None
        ELSE /\ chinese.tag = "Some"
             /\ HanValue(chinese.val) = Magnitude(number)

\* ------------------------------------------------------------------ C2
\* C2 (as claimed): for m = 10000*u + l with 1 <= u <= 9999 the result is
\* format(u) + MYRIAD_MARK + (empty if l = 0, else format(l)).
C2_MyriadSplit ==
    (pc # "start" /\ InDomain(number) /\ Magnitude(number) >= MYRIAD) =>
        LET u == Magnitude(number) \div MYRIAD
            l == Magnitude(number) % MYRIAD
            fu == format_chinese_number(u)
            fl == IF l = 0 THEN Some(<<>>) ELSE format_chinese_number(l)
        IN /\ fu.tag = "Some"
           /\ fl.tag = "Some"
           /\ chinese = Some(fu.val \o MYRIAD_MARK \o fl.val)

\* What the code does: the split holds for every such m but 10,000 itself.
MyriadSplitAboveMyriad ==
    (pc # "start" /\ InDomain(number) /\ Magnitude(number) >= MYRIAD) =>
        LET u == Magnitude(number) \div MYRIAD
            l == Magnitude(number) % MYRIAD
            fu == format_chinese_number(u)
            fl == IF l = 0 THEN Some(<<>>) ELSE format_chinese_number(l)
        IN IF Magnitude(number) = MYRIAD THEN chinese = None
           ELSE chinese = Some(fu.val \o MYRIAD_MARK \o fl.val)

\* ------------------------------------------------------------------ C5
\* C5: for every magnitude m in 1..99,999,999 with T trailing zeros, the
\* Latin form is the decimal numeral of m when T div 3 = 0, of m/1000
\* followed by "k" when T div 3 = 1, of m/1,000,000 followed by "m" when
\* T div 3 = 2; the result is never None.
C5_LatinTierByTrailingZeros ==
    (pc = "formatted" /\ InDomain(number)) =>
        LET m == Magnitude(number)
            tier == TrailingZeros(m) \div 3
            s == latin.val
            front == SubSeq(s, 1, Len(s) - 1)
        IN /\ latin.tag = "Some"
           /\ tier \in 0..2
           /\ tier = 0 => IsDecimal(s) /\ DecValue(s) = m
           /\ tier = 1 => /\ s[Len(s)] = "k"
                          /\ IsDecimal(front)
                          /\ DecValue(front) * 1000 = m
           /\ tier = 2 => /\ s[Len(s)] = "m"
                          /\ IsDecimal(front)
                          /\ DecValue(front) * 1000000 = m

\* 12,300 has two trailing zeros and is printed in full.
C5_Witness ==
    /\ pc = "formatted"
    /\ number = -12300
    /\ latin = Some(<<"1", "2", "3", "0", "0">>)

\* ------------------------------------------------------------------ C9
\* C9: in the result for a magnitude of at most 10,000 no two zero-glyphs are
\* adjacent, the zero-glyph is neither first nor last, and there is exactly
\* one zero-glyph per maximal run of zero digits standing between two
\* non-zero digits; and a lower part after the myriad mark never starts with
\* the zero-glyph.
C9_ZeroElision ==
    (pc # "start" /\ InDomain(number) /\ chinese.tag = "Some") =>
        LET m == Magnitude(number)
            s == chinese.val
        IN /\ m <= MYRIAD =>
                /\ s # <<>>
                /\ s[1] # ZERO_MARK
                /\ s[Len(s)] # ZERO_MARK
                /\ \A i \in 1..(Len(s) - 1) :
                       ~(s[i] = ZERO_MARK /\ s[i + 1] = ZERO_MARK)
                /\ Count(s, ZERO_MARK) = InnerZeroRuns(m)
           /\ m > MYRIAD =>
                \A i \in 1..(Len(s) - 1) :
                    s[i] = MYRIAD_MARK[1] => s[i + 1] # ZERO_MARK

\* 1002: two zero digits, one zero-glyph.
C9_Witness ==
    /\ pc = "chinese"
    /\ number = 1002
    /\ chinese = Some(<<"yi", "qian", ZERO_MARK, "er">>)

\* ----------------------------------------------------------------- C10
\* C10: the special two-glyph stands exactly where a digit 2 is the
\* thousands digit of a group (first glyph of the numeral, or first glyph
\* after the myriad mark), always right before the thousands glyph, and the
\* ordinary two-glyph never stands right before the thousands glyph.
C10_TwoMarkOnlyForThousands ==
    (pc # "start" /\ InDomain(number) /\ chinese.tag = "Some") =>
        LET m == Magnitude(number)
            s == chinese.val
            split == m > MYRIAD
            first == IF split THEN m \div MYRIAD ELSE m
            second == m % MYRIAD
            k == IF split THEN IndexIn(s, MYRIAD_MARK[1]) ELSE 0
            at(i) == i <= Len(s) /\ s[i] = TWO_MARK_FOR_THOUSANDS
        IN /\ \A i \in 1..Len(s) :
                  at(i) => /\ i < Len(s) /\ s[i + 1] = EXPONENTS[3]
                           /\ i = 1 \/ (split /\ i = k + 1)
           /\ \A i \in 1..(Len(s) - 1) :
                  ~(s[i] = DIGITS[2] /\ s[i + 1] = EXPONENTS[3])
           /\ at(1) <=> (first \div 1000 = 2)
           /\ split => (at(k + 1) <=> (second \div 1000 = 2))

\* 22,000: an ordinary two before the myriad mark, the special two before
\* the thousands glyph.
C10_Witness ==
    /\ pc = "chinese"
    /\ number = 22000
    /\ chinese = Some(<<DIGITS[2], "wan", TWO_MARK_FOR_THOUSANDS, "qian">>)

\* ----------------------------------------------------- render, read back

\* The sign character render_raw_number hands to render_number.
SigOf(n) == IF n < 0 THEN "-" ELSE "+"

\* The sign-prefixed strings render is called with.
ChineseNumber == <<SigOf(number)>> \o chinese.val
LatinNumber == <<SigOf(number)>> \o latin.val

\* The split position as the layout rule states it, in characters.
StatedSplit(cn) ==
    LET split == (Len(cn) + Len(CHINESE_SUFFIX)) \div 2
        c == cn[split + 1]
    IN IF c \in SeqRange(DIGITS) \cup {ZERO_MARK, TWO_MARK_FOR_THOUSANDS}
       THEN split ELSE split + 1

\* The render reached the layout of a number of more than 11 characters.
SplitCase ==
    /\ pc = "rendered"
    /\ InDomain(number)
    /\ chinese.tag = "Some"
    /\ latin.tag = "Some"
    /\ Len(ChineseNumber) > 11
    /\ env.fail = "none"

\* ------------------------------------------------------------------ C3
\* C3 (as claimed): in the split layout line 1 is the first `split`
\* characters of chinese_number and line 2 the remaining characters followed
\* by the suffix, and the render does not abort, for every in-domain amount
\* whose chinese_number has 12..16 characters.
C3_SplitLines ==
    SplitCase =>
        LET cn == ChineseNumber
            split == StatedSplit(cn)
        IN /\ Len(cn) \in 12..16
           /\ out.tag = "Some"
           /\ out.plan[1].text = SubSeq(cn, 1, split)
           /\ out.plan[2].text = SubSeq(cn, split + 1, Len(cn)) \o CHINESE_SUFFIX
           /\ out.plan[1].text \o out.plan[2].text = cn \o CHINESE_SUFFIX

\* What the code does: split is used as a byte offset.  The call panics
\* unless split = 10 (the only boundary among 8..11 of a one-byte sign
\* followed by three-byte glyphs), and then line 1 is the first 4 characters.
SplitByByteOffset ==
    SplitCase =>
        LET cn == ChineseNumber
            split == StatedSplit(cn)
        IN /\ Len(cn) \in 12..16
           /\ split \in 8..11
           /\ split # 10 => out.tag = "Panic" /\ out.plan = <<>>
           /\ split = 10 =>
                /\ out.tag = "Some"
                /\ out.plan[1].text = SubSeq(cn, 1, 4)
                /\ out.plan[2].text = SubSeq(cn, 5, Len(cn)) \o CHINESE_SUFFIX

\* ------------------------------------------------------------------ C4
\* C4 (as claimed): both formatters return None for magnitude 0 and for
\* every magnitude >= 100,000,000, for either sign; and whenever a formatter
\* returns None, render_number gives no output and issues no draw.
C4_UnsupportedMagnitude ==
    pc = "rendered" =>
        /\ (number = 0 \/ number >= HUNDRED_MILLION \/ number <= -HUNDRED_MILLION)
              => chinese = None /\ latin = None
        /\ (chinese = None \/ latin = None)
              => out.tag = "None" /\ out.plan = <<>> /\ out.canvas = <<>>

\* What the code does: the same for every amount but i32::MIN, whose
\* magnitude is no i32.
UnsupportedExceptMin ==
    pc = "rendered" =>
        /\ (number # I32_MIN /\ ~InDomain(number)) => chinese = None /\ latin = None
        /\ (chinese = None \/ latin = None)
              => out.tag = "None" /\ out.plan = <<>> /\ out.canvas = <<>>
        /\ number = I32_MIN =>
              IF overflow_checks
              THEN /\ chinese = Panic
                   /\ env.fail # "icon" => out.tag = "Panic"
              ELSE /\ chinese = Some(<<>>)
                   /\ env.fail = "none" => out.tag = "Some"

\* ------------------------------------------------------------------ C6
\* C6: the layout follows the character count L of chinese_number: L <= 4
\* Large, 5 Medium, 6 Small, one line chinese_number+suffix at (160,140);
\* L = 7 Pico, one line at (160,135); L in 8..11 Pico, chinese_number at
\* (160,110) and the suffix at (160,145); the compensation is 10 exactly when
\* L = 7; the Latin line is at x = 160, y = (75 if len(latin_number) > 4
\* else 80) + compensation, with the short suffix exactly when
\* len(latin_number) > 7.
C6_LayoutByLength ==
    (pc = "rendered" /\ chinese.tag = "Some" /\ latin.tag = "Some") =>
        LET cn == ChineseNumber
            ln == LatinNumber
            L == Len(cn)
            lines == IF L <= 7 THEN 1 ELSE 2
            comp == IF L = 7 THEN 10 ELSE 0
            one(font, y) ==
                out.plan[1] = Shadowed(cn \o CHINESE_SUFFIX, font, 160, y)
            p == out.plan
        IN /\ (L <= 11 /\ env.fail \in {"none", "latin_font", "encode"})
                 => Len(p) >= lines
           /\ (p # <<>> /\ L <= 4) => one("cjkFontLarge", 140)
           /\ (p # <<>> /\ L = 5) => one("cjkFontMedium", 140)
           /\ (p # <<>> /\ L = 6) => one("cjkFontSmall", 140)
           /\ (p # <<>> /\ L = 7) => one("cjkFontPico", 135)
           /\ (p # <<>> /\ L \in 8..11) =>
                 /\ p[1] = Shadowed(cn, "cjkFontPico", 160, 110)
                 /\ p[2] = Shadowed(CHINESE_SUFFIX, "cjkFontPico", 160, 145)
           /\ p # <<>> => Len(p) \in {lines, lines + 1}
           /\ out.tag = "Some" => Len(p) = lines + 1
           /\ Len(p) = lines + 1 =>
                 /\ p[lines + 1].x = 160
                 /\ p[lines + 1].y = (IF Len(ln) > 4 THEN 75 ELSE 80) + comp
                 /\ p[lines + 1].text =
                        ln \o <<" ">> \o (IF Len(ln) > 7 THEN LATIN_SUFFIX_SHORT
                                          ELSE LATIN_SUFFIX_FULL)

\* A seven-character number: the Latin line is moved down by 10.
C6_Witness ==
    /\ pc = "rendered"
    /\ out.tag = "Some"
    /\ Len(ChineseNumber) = 7
    /\ out.plan[1].y = 135
    /\ out.plan[2].y = 85

\* ------------------------------------------------------------------ C7
\* C7 (as claimed): when render returns an image every draw instruction of
\* the plan was drawn, and when any step fails (an unsupported magnitude, an
\* asset that does not load, a text the rasterizer turns down) there is no
\* output.  Stated for every amount whose magnitude is an i32; i32::MIN is
\* the case of C4.
WasDrawn(c) ==
    \E i \in 1..Len(out.canvas) :
        /\ out.canvas[i].text = c.text
        /\ out.canvas[i].x = c.x
        /\ out.canvas[i].y = c.y

C7_NoPartialOutput ==
    (pc = "rendered" /\ number # I32_MIN) =>
        /\ out.tag = "Some" => \A k \in 1..Len(out.plan) : WasDrawn(out.plan[k])
        /\ ( \/ env.fail # "none"
             \/ env.reject \cap (1..Len(out.plan)) # {}
             \/ chinese.tag # "Some"
             \/ latin.tag # "Some" ) => out.tag # "Some"

\* What the code does: only the steps followed by `?` abort the render; a
\* text that is turned down is left out of the image that is returned.
OnlyCheckedStepsAbort ==
    pc = "rendered" =>
        /\ (env.fail # "none" \/ chinese.tag # "Some" \/ latin.tag # "Some")
              => out.tag # "Some"
        /\ out.tag = "Some" =>
              \A k \in 1..Len(out.plan) :
                  WasDrawn(out.plan[k]) <=> k \notin env.reject

\* ------------------------------------------------------------------ C8
\* C8: every received update has one task of its own, started at most once
\* and never run again once it has ended; a handler's failure is printed and
\* ends only its own task: the step of a task leaves every other task, the
\* received updates and the receive loop as they were, so the loop goes on
\* receiving, whatever the interleaving.
C8_Inv ==
    /\ Len(tasks) = Len(received)
    /\ \A i \in 1..Len(tasks) :
          /\ tasks[i].attempts <= 1
          /\ tasks[i].at \notin {"spawned", "cancelled"} => tasks[i].attempts = 1
          /\ tasks[i].at = "failed" <=> i \in SeqRange(log)
    /\ Cardinality(SeqRange(log)) = Len(log)

C8_Step ==
    \A i \in 1..Len(tasks) :
        /\ tasks[i].at \in Finished => tasks'[i] = tasks[i]
        /\ (tasks'[i] # tasks[i] /\ tasks'[i].at # "cancelled") =>
              /\ loop' = "receiving"
              /\ received' = received
              /\ Len(tasks') = Len(tasks)
              /\ \A j \in 1..Len(tasks) : j # i => tasks'[j] = tasks[j]

C8_RequestsIsolated == []C8_Inv /\ [][C8_Step]_vars

\* A query that failed and was printed, and a later query answered, with the
\* loop still receiving.
C8_Witness ==
    /\ loop = "receiving"
    /\ \E i, j \in 1..Len(tasks) :
          /\ i < j
          /\ tasks[i].at = "failed"
          /\ log = <<i>>
          /\ received[j].kind = "InlineQuery"
          /\ tasks[j].at = "done"

====
